---------------------------- MODULE Spec2Model ----------------------------
(***************************************************************************)
(* A model of the breadcord "definitions" module (src/__init__.py): the    *)
(* define command, its two dictionary adapters, the embed builder and the  *)
(* author-restricted delete button.                                        *)
(*                                                                         *)
(* Python strings are sequences of one-character strings, so that          *)
(* len(), slicing, lower(), strip() and re.sub() are computed, not         *)
(* assumed.  An optional value (None, or an absent JSON key read with      *)
(* .get) is the empty tuple None; a present value v is Some(v) = <<v>>.    *)
(***************************************************************************)
EXTENDS Naturals, Sequences, FiniteSets, TLC

None == <<>>
Some(v) == <<v>>
IsSome(o) == Len(o) = 1
Val(o) == o[1]

(* Python truthiness of an optional string or list: present and non-empty. *)
Truthy(o) == IsSome(o) /\ Len(Val(o)) > 0

(* x or default: the value when truthy, otherwise the default. *)
OrElse(o, default) == IF Truthy(o) THEN Val(o) ELSE default

(* x or None, for an optional string. *)
OrNone(o) == IF Truthy(o) THEN o ELSE None

Rep(c, n) == [i \in 1..n |-> c]

RECURSIVE Join(_, _)
(* sep.join(parts) *)
Join(sep, parts) ==
    IF Len(parts) = 0 THEN <<>>
    ELSE IF Len(parts) = 1 THEN parts[1]
    ELSE parts[1] \o sep \o Join(sep, Tail(parts))

RECURSIVE SumLen(_)
(* sum(len(field) for field in fields) *)
SumLen(fields) ==
    IF Len(fields) = 0 THEN 0 ELSE Len(Head(fields)) + SumLen(Tail(fields))

Digit == <<"0", "1", "2", "3", "4", "5", "6", "7", "8", "9">>

RECURSIVE Str(_)
(* str(n) for a natural number, as the f-string of line 161 formats it. *)
Str(n) == IF n < 10 THEN <<Digit[n + 1]>> ELSE Str(n \div 10) \o <<Digit[(n % 10) + 1]>>

UpperCase == <<"A", "B", "C", "D", "E", "F", "G", "H", "I", "J", "K", "L", "M",
               "N", "O", "P", "Q", "R", "S", "T", "U", "V", "W", "X", "Y", "Z">>
LowerCase == <<"a", "b", "c", "d", "e", "f", "g", "h", "i", "j", "k", "l", "m",
               "n", "o", "p", "q", "r", "s", "t", "u", "v", "w", "x", "y", "z">>

(* str.lower(), one character at a time (ASCII letters). *)
LowerChar(c) ==
    IF \E i \in 1..26 : UpperCase[i] = c
    THEN LowerCase[CHOOSE i \in 1..26 : UpperCase[i] = c]
    ELSE c
Lower(s) == [i \in 1..Len(s) |-> LowerChar(s[i])]

IsSpace(c) == c \in {" ", "\n", "\t"}
IsAlnum(c) ==
    \/ \E i \in 1..26 : c = UpperCase[i] \/ c = LowerCase[i]
    \/ \E i \in 1..10 : c = Digit[i]

RECURSIVE LStrip(_)
LStrip(s) == IF Len(s) > 0 /\ IsSpace(Head(s)) THEN LStrip(Tail(s)) ELSE s
RECURSIVE RStrip(_)
RStrip(s) ==
    IF Len(s) > 0 /\ IsSpace(s[Len(s)]) THEN RStrip(SubSeq(s, 1, Len(s) - 1)) ELSE s
(* str.strip() *)
Strip(s) == RStrip(LStrip(s))

KeepUrlChar(c) == IsAlnum(c) \/ IsSpace(c)

(* clean_for_url: lower, strip, then drop what is neither alphanumeric nor space. *)
clean_for_url(word) == SelectSeq(Strip(Lower(word)), KeepUrlChar)

RECURSIVE CleanupFrom(_, _)
(* re.sub(r"\[(.*?)]", r"\1", text) scanning from position i: at a "[" that *)
(* has a later "]" with no newline in between, keep only the text between  *)
(* them (the shortest such match); every other character is copied.        *)
CleanupFrom(text, i) ==
    IF i > Len(text) THEN <<>>
    ELSE LET closers == {j \in (i + 1)..Len(text) : text[j] = "]"}
             first == CHOOSE j \in closers : \A k \in closers : j <= k
         IN IF /\ text[i] = "["
               /\ closers # {}
               /\ \A k \in (i + 1)..(first - 1) : text[k] # "\n"
            THEN SubSeq(text, i + 1, first - 1) \o CleanupFrom(text, first + 1)
            ELSE <<text[i]>> \o CleanupFrom(text, i + 1)

cleanup_ud_def(text) == CleanupFrom(text, 1)

(***************************************************************************)
(* The dataclasses.                                                        *)
(***************************************************************************)
Meaning(word_class, definition, example, synonyms, antonyms) ==
    [word_class |-> word_class, definition |-> definition, example |-> example,
     synonyms |-> synonyms, antonyms |-> antonyms]

Word(word, phonetic_str, phonetic_audio_url, meanings) ==
    [word |-> word, phonetic_str |-> phonetic_str,
     phonetic_audio_url |-> phonetic_audio_url, meanings |-> meanings]

(* What a call gives back: a value, None, or a raised exception. *)
Returned(v) == [tag |-> "ok", val |-> v, exc |-> ""]
ReturnedNone == [tag |-> "none", val |-> <<>>, exc |-> ""]
Raised(e) == [tag |-> "raise", val |-> <<>>, exc |-> e]


(***************************************************************************)
(* get_dictionary_def.  A response is [ok, data]; data is the JSON body, a *)
(* list of entries [word, phonetics, meanings].  phonetics and meanings    *)
(* are optional keys; a phonetic record is [text, audio], a part-of-speech *)
(* group is [partOfSpeech, definitions] and a definition is [definition,   *)
(* example, synonyms, antonyms], every key optional.                       *)
(***************************************************************************)

(* The sort key of line 67.  x.get("audio") * 1 is evaluated before bool() *)
(* is applied, so it is defined only when the audio key is present.        *)
PhoneticKeyRaises(x) == x.audio = None
PhoneticKey(x) ==
    (IF Truthy(x.text) THEN 1 ELSE 0) * 2 + (IF Truthy(x.audio) THEN 1 ELSE 0)

(* sorted(phonetics, key=..., reverse=True): a stable sort, so records with *)
(* equal keys keep their original order; the keys are 0..3.                *)
SortedPhonetics(phonetics) ==
    LET WithKey(k) == LET Has(x) == PhoneticKey(x) = k IN SelectSeq(phonetics, Has)
    IN WithKey(3) \o WithKey(2) \o WithKey(1) \o WithKey(0)

(* Lines 70-71: the fields read from phonetics[0]. *)
PhoneticFields(top) == [phonetic_str |-> top.text, phonetic_audio_url |-> top.audio]

(* Lines 63-71: the phonetic fields of one entry, or the TypeError of the  *)
(* key function.                                                           *)
EntryPhonetics(word_data) ==
    IF ~Truthy(word_data.phonetics)
    THEN Returned([phonetic_str |-> None, phonetic_audio_url |-> None])
    ELSE IF \E i \in 1..Len(Val(word_data.phonetics)) :
               PhoneticKeyRaises(Val(word_data.phonetics)[i])
    THEN Raised("TypeError")
    ELSE Returned(PhoneticFields(SortedPhonetics(Val(word_data.phonetics))[1]))

(* Lines 76-83 for one part-of-speech group whose keys are all present. *)
GroupMeanings(meaning) ==
    LET definitions == Val(meaning.definitions)
    IN [j \in 1..Len(definitions) |->
          Meaning(meaning.partOfSpeech,
                  Val(definitions[j].definition),
                  OrNone(definitions[j].example),
                  OrElse(definitions[j].synonyms, <<>>),
                  OrElse(definitions[j].antonyms, <<>>))]

RECURSIVE FlattenMeanings(_)
FlattenMeanings(groups) ==
    IF Len(groups) = 0 THEN <<>>
    ELSE GroupMeanings(Head(groups)) \o FlattenMeanings(Tail(groups))

(* The subscripts of lines 75, 76 and 79 raise KeyError on an absent key. *)
MeaningsKeyError(word_data) ==
    \/ word_data.meanings = None
    \/ \E i \in 1..Len(Val(word_data.meanings)) :
          LET meaning == Val(word_data.meanings)[i]
          IN \/ meaning.definitions = None
             \/ \E j \in 1..Len(Val(meaning.definitions)) :
                   Val(meaning.definitions)[j].definition = None

(* Lines 73-83: the meanings of one entry, or the KeyError. *)
EntryMeanings(word_data) ==
    IF MeaningsKeyError(word_data) THEN Raised("KeyError")
    ELSE Returned(FlattenMeanings(Val(word_data.meanings)))

(* Lines 85-90, given what lines 63-71 (ph) and 73-83 (ms) came to; the *)
(* phonetics are evaluated first.                                       *)
MakeWord(word_data, ph, ms) ==
    IF ph.tag = "raise" THEN ph
    ELSE IF ms.tag = "raise" THEN ms
    ELSE Returned(Word(word_data.word, ph.val.phonetic_str,
                       ph.val.phonetic_audio_url, ms.val))

(* One iteration of the loop of line 62. *)
EntryWord(word_data) ==
    MakeWord(word_data, EntryPhonetics(word_data), EntryMeanings(word_data))

(* words.append, unless this iteration (w) or a later one (rest) raised. *)
AppendWord(w, rest) ==
    IF w.tag = "raise" THEN w
    ELSE IF rest.tag = "raise" THEN rest
    ELSE Returned(<<w.val>> \o rest.val)

RECURSIVE EntryWords(_)
(* The loop of line 62: the Words in order, or the first exception. *)
EntryWords(data) ==
    IF Len(data) = 0 THEN Returned(<<>>)
    ELSE AppendWord(EntryWord(Head(data)), EntryWords(Tail(data)))

(* Line 91: return words or None. *)
WordsOrNone(words) ==
    IF words.tag = "raise" THEN words
    ELSE IF Len(words.val) = 0 THEN ReturnedNone
    ELSE words

get_dictionary_def(response) ==
    IF ~response.ok THEN ReturnedNone
    ELSE IF Len(response.data) = 0 THEN ReturnedNone
    ELSE WordsOrNone(EntryWords(response.data))

(***************************************************************************)
(* get_urban_dictionary_def.  A response is [ok, data]; data is the JSON   *)
(* body, an optional object whose optional "list" key holds entries        *)
(* [word, definition, example]; definition and example are optional keys.  *)
(***************************************************************************)

(* The filter of line 116, against the normalised queried word. *)
UrbanMatches(word_data, word) == Lower(word_data.word) = Lower(word)

(* s or None, for a string. *)
StrOrNone(s) == IF Len(s) > 0 THEN Some(s) ELSE None

UrbanMeaning(word_data) ==
    Meaning(None,
            cleanup_ud_def(Val(word_data.definition)),
            StrOrNone(cleanup_ud_def(OrElse(word_data.example, <<>>))),
            <<>>, <<>>)

(* One kept entry's Meaning, before those of the later entries (rest). *)
AppendMeaning(word_data, rest) ==
    IF rest.tag = "raise" THEN rest
    ELSE Returned(<<UrbanMeaning(word_data)>> \o rest.val)

RECURSIVE UrbanMeanings(_, _)
(* The comprehension of lines 107-117; word_data["definition"] raises *)
(* KeyError, for an entry that passed the filter.                     *)
UrbanMeanings(data, word) ==
    IF Len(data) = 0 THEN Returned(<<>>)
    ELSE IF ~UrbanMatches(Head(data), word) THEN UrbanMeanings(Tail(data), word)
    ELSE IF Head(data).definition = None THEN Raised("KeyError")
    ELSE AppendMeaning(Head(data), UrbanMeanings(Tail(data), word))

(* Line 119: the headword given to the Word. *)
UrbanHeadword(data) == data[1].word

(* Lines 118-123. *)
UrbanWords(data, meanings) ==
    IF meanings.tag = "raise" THEN meanings
    ELSE IF Len(meanings.val) = 0 THEN ReturnedNone
    ELSE Returned(<<Word(UrbanHeadword(data), None, None, meanings.val)>>)

get_urban_dictionary_def(word, response) ==
    IF ~response.ok THEN ReturnedNone
    ELSE IF response.data = None THEN ReturnedNone
    ELSE IF ~Truthy(Val(response.data).list) THEN ReturnedNone
    ELSE UrbanWords(Val(Val(response.data).list),
                    UrbanMeanings(Val(Val(response.data).list), clean_for_url(word)))

(***************************************************************************)
(* build_word_embed.                                                       *)
(***************************************************************************)
DefinitionPrefix ==
    <<"*", "*", "D", "e", "f", "i", "n", "i", "t", "i", "o", "n", ":", "*", "*", " ">>
ExamplePrefix == <<"*", "*", "E", "x", "a", "m", "p", "l", "e", ":", "*", "*", " ">>
SynonymsPrefix == <<"*", "*", "S", "y", "n", "o", "n", "y", "m", "s", ":", "*", "*", " ">>
AntonymsPrefix == <<"*", "*", "A", "n", "t", "o", "n", "y", "m", "s", ":", "*", "*", " ">>
MeaningLabel == <<"M", "e", "a", "n", "i", "n", "g">>
PronunciationLabel ==
    <<"P", "r", "o", "n", "u", "n", "c", "i", "a", "t", "i", "o", "n">>

(* The per-field cap of lines 148-149. *)
FieldCap == 1024

(* The grave accent of lines 128 and 130, which the TLA+ lexer does not *)
(* accept inside a string: one character, written by name.             *)
Backtick == "GRAVE"

(* get_phonetic, lines 126-133. *)
get_phonetic(word) ==
    LET text == Truthy(word.phonetic_str)
        audio == Truthy(word.phonetic_audio_url)
    IN IF text /\ audio
       THEN Some(<<"[", Backtick>> \o Val(word.phonetic_str) \o <<Backtick, "]", "(">>
                 \o Val(word.phonetic_audio_url) \o <<")">>)
       ELSE IF text /\ ~audio
       THEN Some(<<Backtick>> \o Val(word.phonetic_str) \o <<Backtick>>)
       ELSE IF ~text /\ audio
       THEN Some(<<"[">> \o PronunciationLabel \o <<"]", "(">>
                 \o Val(word.phonetic_audio_url) \o <<")">>)
       ELSE None

(* Lines 143-146: the lines of a field, the absent ones left out. *)
FieldLines(word_meaning) ==
    <<DefinitionPrefix \o word_meaning.definition>>
    \o (IF Truthy(word_meaning.example)
        THEN <<ExamplePrefix \o Val(word_meaning.example)>> ELSE <<>>)
    \o (IF Len(word_meaning.synonyms) > 0
        THEN <<SynonymsPrefix \o Join(<<",", " ">>, word_meaning.synonyms)>>
        ELSE <<>>)
    \o (IF Len(word_meaning.antonyms) > 0
        THEN <<AntonymsPrefix \o Join(<<",", " ">>, word_meaning.antonyms)>>
        ELSE <<>>)

(* Lines 148-150. *)
Truncated(def_str) ==
    IF Len(def_str) > FieldCap
    THEN SubSeq(def_str, 1, FieldCap - 3) \o <<".", ".", ".">>
    ELSE def_str

(* field_text, lines 141-150. *)
field_text(word_meaning) == Truncated(Join(<<"\n">>, FieldLines(word_meaning)))

(* The texts of the meanings at the positions idx, in that order. *)
FieldsAt(meanings, idx) == [k \in 1..Len(idx) |-> field_text(meanings[idx[k]])]

(* The test of line 155 for the meaning at position i, after the meanings *)
(* at the positions idx have been appended to fields.                     *)
FitsBudget(meanings, idx, i, budget) ==
    SumLen(FieldsAt(meanings, idx)) + Len(field_text(meanings[i])) <= budget

RECURSIVE IncludedFrom(_, _, _, _)
(* The loop of lines 153-156 from position i on: idx holds the positions *)
(* (1-based, in word.meanings) of the meanings appended to fields so far. *)
IncludedFrom(meanings, idx, i, budget) ==
    IF i > Len(meanings) THEN idx
    ELSE IF FitsBudget(meanings, idx, i, budget)
    THEN IncludedFrom(meanings, Append(idx, i), i + 1, budget)
    ELSE IncludedFrom(meanings, idx, i + 1, budget)

(* Lines 152-156: the positions of the meanings whose texts make up fields. *)
Included(meanings, budget) == IncludedFrom(meanings, <<1>>, 2, budget)

(* Lines 158-170: zip(word.meanings, fields) pairs the n-th field with the *)
(* n-th meaning of the word.                                               *)
EmbedFields(meanings, fields) ==
    IF Len(fields) > 1
    THEN [n \in 1..Len(fields) |->
            [name |-> OrElse(meanings[n].word_class, MeaningLabel \o <<" ">> \o Str(n)),
             value |-> fields[n],
             inline |-> FALSE]]
    ELSE <<[name |-> OrElse(meanings[1].word_class, MeaningLabel),
            value |-> fields[1],
            inline |-> FALSE]>>

(* build_word_embed; word.meanings[0] raises IndexError on an empty list. *)
build_word_embed(word, budget) ==
    IF Len(word.meanings) = 0 THEN Raised("IndexError")
    ELSE Returned([title |-> word.word,
                   description |-> get_phonetic(word),
                   colour |-> "blurple",
                   footer |-> "",
                   fields |-> EmbedFields(word.meanings,
                                          FieldsAt(word.meanings,
                                                   Included(word.meanings, budget)))])

(***************************************************************************)
(* normal_embed and urban_dictionary_embed: the first Word of the adapter's *)
(* list, built and given its footer (and, for the slang source, colour).   *)
(***************************************************************************)
FormalFooter == "Definitions sourced from Dictionary API"
UrbanFooter == "Definitions sourced from Urban Dictionary"

(* Lines 180 and 189-190, on what build_word_embed gave. *)
Finished(built, colour, footer) ==
    IF built.tag = "raise" THEN built
    ELSE Returned([built.val EXCEPT !.colour = colour, !.footer = footer])

(* Lines 176-181 and 185-191, on what the adapter gave. *)
EmbedOfWords(words, budget, colour, footer) ==
    IF words.tag # "ok" THEN words
    ELSE Finished(build_word_embed(words.val[1], budget), colour, footer)

(* normal_embed with the adapter's exception caught and turned into None. *)
normal_embed_Swallow(word, response, budget) ==
    IF get_dictionary_def(response).tag = "raise" THEN ReturnedNone
    ELSE EmbedOfWords(get_dictionary_def(response), budget, "blurple", FormalFooter)

normal_embed(word, response, budget) ==
    EmbedOfWords(get_dictionary_def(response), budget, "blurple", FormalFooter)

urban_dictionary_embed(word, response, budget) ==
    EmbedOfWords(get_urban_dictionary_def(word, response), budget, "0xEFFF00", UrbanFooter)

(***************************************************************************)
(* AuthorDeleteView.                                                       *)
(***************************************************************************)
AuthorDeleteView(author_id) == [author_id |-> author_id]

(* interaction_check without the comparison of line 36. *)
interaction_check_Anyone(self, user_id) == TRUE

(* interaction_check, lines 33-36; the base class's check allows everyone. *)
interaction_check(self, user_id) ==
    IF self.author_id = None THEN TRUE ELSE user_id = Val(self.author_id)

(***************************************************************************)
(* The state: one invocation of define, the message it sent, and the       *)
(* presses of that message's Delete button.                                *)
(***************************************************************************)
VARIABLES
    query,           \* the query argument, stripped by line 199
    urban,           \* the urban argument
    author,          \* ctx.author.id
    budget,          \* settings.max_meanings_length.value
    formalResponse,  \* what api.dictionaryapi.dev answers to this query
    slangResponse,   \* what api.urbandictionary.com answers to this query
    pc,              \* the line define is at
    embed,           \* define's local
    deletable,       \* define's local
    lookups,         \* the adapter calls made so far, with what they gave
    reply,           \* what ctx.reply sent, if anything
    deleted,         \* whether the reply's message has been deleted
    restarted,       \* whether the process has restarted since the reply
    clicks           \* the Delete presses so far: who, and the view's author_id

vars == <<query, urban, author, budget, formalResponse, slangResponse, pc, embed,
          deletable, lookups, reply, deleted, restarted, clicks>>

inputs == <<query, urban, author, budget, formalResponse, slangResponse>>

NeedWordReply == "You need to provide a word to define"
NotFoundReply == "No definitions found for that word"

TextReply(content) == [content |-> content, embed |-> None, view |-> None]

(* Lines 215-218. *)
EmbedReply(e, can_delete, author_id) ==
    [content |-> "", embed |-> Some(e),
     view |-> IF can_delete THEN Some(AuthorDeleteView(Some(author_id))) ELSE None]

(* Line 207 without its condition, and line 210 never taken. *)
NeedsUrbanLookup_Always(u, e) == TRUE
NeedsFormalFallback_Never(u, e) == FALSE

(* The conditions of lines 207 and 210. *)
NeedsUrbanLookup(u, e) == u \/ e = None
NeedsFormalFallback(u, e) == u /\ e = None

(* One adapter call: the source, the normalised word put in the URL, what *)
(* the adapter gave (words) and what the embed function made of it.       *)
Lookup(source, word, words, result) ==
    [source |-> source, word |-> word, words |-> words, result |-> result]

(* The value an embed function's result leaves in define's embed. *)
AsEmbed(result) == IF result.tag = "ok" THEN Some(result.val) ELSE None

(* Lines 199-204. *)
DefineStart ==
    /\ pc = "l199"
    /\ query' = Strip(query)
    /\ IF Len(Strip(query)) = 0
       THEN /\ reply' = Some(TextReply(NeedWordReply))
            /\ pc' = "done"
       ELSE /\ reply' = reply
            /\ pc' = "l205"
    /\ deletable' = FALSE
    /\ embed' = None
    /\ UNCHANGED <<urban, author, budget, formalResponse, slangResponse, lookups,
                   deleted, restarted, clicks>>

(* embed = await ...: the assignment, or the exception leaving define. *)
Awaited(source, words, result, next) ==
    /\ lookups' = Append(lookups, Lookup(source, clean_for_url(query), words, result))
    /\ embed' = IF result.tag = "raise" THEN embed ELSE AsEmbed(result)
    /\ pc' = IF result.tag = "raise" THEN "raised" ELSE next

(* Lines 205-206. *)
DefineFormalFirst ==
    /\ pc = "l205"
    /\ IF ~urban
       THEN Awaited("formal", get_dictionary_def(formalResponse),
                    normal_embed(query, formalResponse, budget), "l207")
       ELSE /\ pc' = "l207"
            /\ UNCHANGED <<lookups, embed>>
    /\ UNCHANGED <<inputs, deletable, reply, deleted, restarted, clicks>>

(* Lines 207-209. *)
DefineUrban ==
    /\ pc = "l207"
    /\ IF NeedsUrbanLookup(urban, embed)
       THEN /\ Awaited("slang", get_urban_dictionary_def(query, slangResponse),
                       urban_dictionary_embed(query, slangResponse, budget), "l210")
            /\ deletable' = IF pc' = "raised" THEN deletable ELSE TRUE
       ELSE /\ pc' = "l210"
            /\ UNCHANGED <<lookups, embed, deletable>>
    /\ UNCHANGED <<inputs, reply, deleted, restarted, clicks>>

(* Lines 210-211. *)
DefineFormalFallback ==
    /\ pc = "l210"
    /\ IF NeedsFormalFallback(urban, embed)
       THEN Awaited("formal", get_dictionary_def(formalResponse),
                    normal_embed(query, formalResponse, budget), "l212")
       ELSE /\ pc' = "l212"
            /\ UNCHANGED <<lookups, embed>>
    /\ UNCHANGED <<inputs, deletable, reply, deleted, restarted, clicks>>

(* Lines 212-218. *)
DefineReply ==
    /\ pc = "l212"
    /\ reply' = IF embed = None
                THEN Some(TextReply(NotFoundReply))
                ELSE Some(EmbedReply(Val(embed), deletable, author))
    /\ pc' = "done"
    /\ UNCHANGED <<inputs, embed, deletable, lookups, deleted, restarted, clicks>>

(***************************************************************************)
(* The Delete button and the process restart.  While the process that sent *)
(* the reply runs, the button is the reply's own view; after a restart it  *)
(* is the view registered by line 51, which has no author_id.              *)
(***************************************************************************)
MaxUsers == 2
MaxClicks == 2
Users == 1..MaxUsers

HasButton == reply # None /\ Val(reply).view # None

HandlingView == IF restarted THEN AuthorDeleteView(None) ELSE Val(Val(reply).view)

(* A press of Delete by user_id: interaction_check, then lines 39-41. *)
Click(user_id) ==
    /\ HasButton
    /\ ~deleted
    /\ Len(clicks) < MaxClicks
    /\ clicks' = Append(clicks, [user |-> user_id, author_id |-> HandlingView.author_id])
    /\ deleted' = interaction_check(HandlingView, user_id)
    /\ UNCHANGED <<inputs, pc, embed, deletable, lookups, reply, restarted>>

(* The bot restarts: a running invocation is lost, line 51 runs again. *)
Restart ==
    /\ ~restarted
    /\ restarted' = TRUE
    /\ pc' = IF pc \in {"done", "raised"} THEN pc ELSE "killed"
    /\ UNCHANGED <<inputs, embed, deletable, lookups, reply, deleted, clicks>>

(***************************************************************************)
(* The inputs: what the user typed and what the two services answer.  The  *)
(* initial states are a union of families, each varying the inputs of one  *)
(* part of the program over every combination within its bounds.           *)
(***************************************************************************)
MaxPhonetics == 2
MaxMeanings == 3
MaxSlangEntries == 2

SeqsUpTo(S, n) == UNION {[1..k -> S] : k \in 0..n}
NonEmptySeqsUpTo(S, n) == UNION {[1..k -> S] : k \in 1..n}

Scenario(q, u, a, b, f, s) ==
    [query |-> q, urban |-> u, author |-> a, budget |-> b,
     formalResponse |-> f, slangResponse |-> s]

(* JSON of the formal dictionary. *)
FormalDefinition(text, example, synonyms) ==
    [definition |-> text, example |-> example, synonyms |-> synonyms, antonyms |-> None]
FormalGroup(partOfSpeech, definitions) ==
    [partOfSpeech |-> partOfSpeech, definitions |-> definitions]
FormalEntry(word, phonetics, meanings) ==
    [word |-> word, phonetics |-> phonetics, meanings |-> meanings]
FormalOk(data) == [ok |-> TRUE, data |-> data]
FormalNotOk == [ok |-> FALSE, data |-> <<>>]

(* JSON of the slang dictionary. *)
UrbanEntry(word, definition, example) ==
    [word |-> word, definition |-> definition, example |-> example]
UrbanOk(list) == [ok |-> TRUE, data |-> Some([list |-> list])]
UrbanNoBody == [ok |-> TRUE, data |-> None]
UrbanNotOk == [ok |-> FALSE, data |-> None]

Noun == <<"n", "o", "u", "n">>
Verb == <<"v", "e", "r", "b">>
Ipa1 == <<"/", "t", "/">>
Ipa2 == <<"/", "T", "/">>
Url1 == <<"u", "1">>
Url2 == <<"u", "2">>

(* Definition texts whose fields are 20, 40, 20 and (cut) 1024 long. *)
ShortText == Rep("a", 4)
MidText == Rep("b", 24)
OtherShortText == Rep("d", 4)
LongText == Rep("c", 1100)

PlainDefinition(text) == FormalDefinition(Some(text), None, None)
GoodMeanings == Some(<<FormalGroup(Some(Noun), Some(<<PlainDefinition(ShortText)>>))>>)
GoodEntry == FormalEntry(<<"t">>, None, GoodMeanings)

(* Family 1: the command's control flow, over every query, flag, author *)
(* and pair of answers.                                                 *)
Queries == {<<>>, <<" ">>, <<"t">>, <<" ", "T", "'", " ">>}

FormalAnswers ==
    { FormalNotOk,
      FormalOk(<<>>),
      FormalOk(<<GoodEntry>>),
      FormalOk(<<GoodEntry, FormalEntry(<<"t">>, None, None)>>),
      FormalOk(<<FormalEntry(<<"t">>, None,
                   Some(<<FormalGroup(Some(Noun),
                            Some(<<FormalDefinition(None, None, None)>>))>>))>>),
      FormalOk(<<FormalEntry(<<"t">>, None, Some(<<FormalGroup(Some(Noun), None)>>))>>),
      FormalOk(<<FormalEntry(<<"t">>, None, Some(<<>>))>>),
      FormalOk(<<FormalEntry(<<"t">>, None, Some(<<FormalGroup(Some(Noun), Some(<<>>))>>))>>),
      FormalOk(<<FormalEntry(<<"t">>, None,
                   Some(<<FormalGroup(Some(Noun), Some(<<PlainDefinition(<<>>)>>))>>))>>) }

SlangText == <<"s", " ", "[", "x", "]">>
GoodSlangEntry == UrbanEntry(<<"T">>, Some(SlangText), None)
NearSlangEntry == UrbanEntry(<<"t", "s">>, Some(SlangText), None)

SlangAnswers ==
    { UrbanNotOk,
      UrbanNoBody,
      UrbanOk(None),
      UrbanOk(Some(<<>>)),
      UrbanOk(Some(<<GoodSlangEntry>>)),
      UrbanOk(Some(<<NearSlangEntry>>)),
      UrbanOk(Some(<<NearSlangEntry, GoodSlangEntry>>)),
      UrbanOk(Some(<<UrbanEntry(<<"t">>, None, None)>>)) }

ControlScenarios ==
    {Scenario(q, u, a, 100, f, s) :
        q \in Queries, u \in BOOLEAN, a \in Users, f \in FormalAnswers, s \in SlangAnswers}

(* Family 2: the phonetic records of a formal entry. *)
PhoneticRecords ==
    {[text |-> x, audio |-> y] :
        x \in {None, Some(<<>>), Some(Ipa1), Some(Ipa2)},
        y \in {None, Some(<<>>), Some(Url1), Some(Url2)}}

PhoneticScenarios ==
    {Scenario(<<"t">>, FALSE, 1, 100,
              FormalOk(<<FormalEntry(<<"t">>, p, GoodMeanings)>>), UrbanNotOk) :
        p \in {None} \cup {Some(l) : l \in SeqsUpTo(PhoneticRecords, MaxPhonetics)}}

(* Family 3: the meanings of a formal entry, and the budget. *)
Budgets == {50, 100, 2048}

FormalGroups ==
    {FormalGroup(c, Some(<<PlainDefinition(x)>>)) :
        c \in {None, Some(Noun)}, x \in {ShortText, MidText, OtherShortText}}

RichGroups ==
    { FormalGroup(Some(Verb),
                  Some(<<FormalDefinition(Some(ShortText), Some(<<"e">>), Some(<<Noun, Verb>>)),
                         FormalDefinition(Some(MidText), Some(<<>>), Some(<<>>))>>)),
      FormalGroup(Some(<<>>), Some(<<PlainDefinition(LongText)>>)) }

MeaningScenarios ==
    {Scenario(<<"t">>, FALSE, 1, b,
              FormalOk(<<FormalEntry(<<"t">>, None, Some(g))>>), UrbanNotOk) :
        b \in Budgets,
        g \in NonEmptySeqsUpTo(FormalGroups, MaxMeanings)
              \cup NonEmptySeqsUpTo(RichGroups, 2)}

(* Family 4: the result list of the slang dictionary. *)
UrbanEntries ==
    {UrbanEntry(w, d[1], d[2]) :
        w \in {<<"t">>, <<"T">>, <<"t", "s">>},
        d \in { <<Some(ShortText), None>>,
                <<Some(SlangText), Some(<<"[", "e", "]">>)>>,
                <<Some(MidText), Some(<<"[", "]">>)>>,
                <<None, None>> }}

SlangScenarios ==
    {Scenario(q, TRUE, 1, 50, FormalNotOk, UrbanOk(Some(l))) :
        q \in {<<"t">>, <<"T", "'">>},
        l \in NonEmptySeqsUpTo(UrbanEntries, MaxSlangEntries)}

Scenarios == ControlScenarios \cup PhoneticScenarios \cup MeaningScenarios
             \cup SlangScenarios

Init ==
    /\ \E s \in Scenarios :
          /\ query = s.query
          /\ urban = s.urban
          /\ author = s.author
          /\ budget = s.budget
          /\ formalResponse = s.formalResponse
          /\ slangResponse = s.slangResponse
    /\ pc = "l199"
    /\ embed = None
    /\ deletable = FALSE
    /\ lookups = <<>>
    /\ reply = None
    /\ deleted = FALSE
    /\ restarted = FALSE
    /\ clicks = <<>>

Next ==
    \/ DefineStart
    \/ DefineFormalFirst
    \/ DefineUrban
    \/ DefineFormalFallback
    \/ DefineReply
    \/ \E u \in Users : Click(u)
    \/ Restart

Spec == Init /\ [][Next]_vars

(***************************************************************************)
(* The properties.                                                         *)
(***************************************************************************)
Sent == reply # None
SentEmbed == Sent /\ Val(reply).embed # None
SentNotFound == Sent /\ Val(reply).content = NotFoundReply
LastLookup == lookups[Len(lookups)]
ReturnedNoResult(source) ==
    \E i \in 1..Len(lookups) :
        lookups[i].source = source /\ lookups[i].result.tag = "none"

(* C1: whenever define sends a display payload, the delete control is      *)
(* attached if and only if the display sent was built from the slang       *)
(* lookup; with urban true, no slang result and a formal result, the reply *)
(* carries no delete control.                                              *)
C1_DeleteControlIffSlang ==
    SentEmbed => ((Val(reply).view # None) <=> (LastLookup.source = "slang"))

(* C2: the two adapters are tried one after the other and each at most     *)
(* once: the formal lookup first when urban is false, the slang lookup     *)
(* first when urban is true, the other one only after the first returned   *)
(* no result; once a lookup returns a result no further lookup is issued   *)
(* and that result is the one displayed.                                   *)
C2_SequentialLookups ==
    /\ Len(lookups) <= 2
    /\ Len(lookups) >= 1 => lookups[1].source = (IF urban THEN "slang" ELSE "formal")
    /\ Len(lookups) = 2 =>
          /\ lookups[2].source # lookups[1].source
          /\ lookups[1].result.tag = "none"
    /\ \A i \in 1..Len(lookups) : lookups[i].result.tag = "ok" => i = Len(lookups)
    /\ \/ pc = "l207" /\ ~urban
       \/ pc \in {"l210", "l212"}
       \/ pc = "done" /\ Len(query) > 0
       => Len(lookups) >= 1
    /\ pc = "done" /\ Len(lookups) >= 1 /\ LastLookup.result.tag = "ok" => SentEmbed
    /\ SentEmbed =>
          /\ LastLookup.result.tag = "ok"
          /\ Val(Val(reply).embed) = LastLookup.result.val

C2_Witness ==
    /\ pc = "done"
    /\ urban
    /\ Len(lookups) = 2
    /\ lookups[1].source = "slang"
    /\ lookups[2].result.tag = "ok"
    /\ SentEmbed

(* C3: for a non-empty query, the reply is the plain text "No definitions  *)
(* found for that word", with no display payload and no delete control, if *)
(* and only if both the formal and the slang lookup returned no result.    *)
C3_NotFoundIffBothEmpty ==
    /\ SentNotFound =>
          /\ Val(reply).embed = None
          /\ Val(reply).view = None
          /\ ReturnedNoResult("formal")
          /\ ReturnedNoResult("slang")
    /\ pc = "done" /\ Len(query) > 0 =>
          (SentNotFound <=> ReturnedNoResult("formal") /\ ReturnedNoResult("slang"))

C3_Witness ==
    /\ pc = "done"
    /\ urban
    /\ SentNotFound
    /\ Len(lookups) = 2

(* C4: a press of the delete control deletes the message exactly when the  *)
(* control has no bound requester identity or the pressing user is the     *)
(* bound identity; a press by anyone else deletes nothing and changes no   *)
(* state.  The control sent by define is bound to the command's author.    *)
C4_DeleteOnlyByRequester ==
    [][Len(clicks') > Len(clicks) =>
          LET press == clicks'[Len(clicks')]
              allowed == press.author_id = None \/ press.user = Val(press.author_id)
          IN /\ press.author_id = (IF restarted THEN None ELSE Some(author))
             /\ deleted' <=> allowed
             /\ ~allowed => UNCHANGED <<inputs, pc, embed, deletable, lookups, reply,
                                        deleted, restarted>>]_vars

C4_Witness ==
    /\ Len(clicks) = 2
    /\ clicks[1].author_id # None
    /\ clicks[1].user # Val(clicks[1].author_id)
    /\ clicks[2].author_id # None
    /\ clicks[2].user = Val(clicks[2].author_id)
    /\ deleted

(* The lookups whose Word was built into an embed, and that Word. *)
Built == {i \in 1..Len(lookups) : lookups[i].result.tag = "ok"}
BuiltWord(i) == lookups[i].words.val[1]
BuiltFields(i) == lookups[i].result.val.fields
ValuesUpTo(fields, n) == [k \in 1..n |-> fields[k].value]

(* C5: the meanings whose sections are included form a prefix of           *)
(* word.meanings: meaning 0 is always included, each later one only if the *)
(* included bodies plus its own stay within max_meanings_length, and after *)
(* the first meaning that does not fit no later meaning is included.       *)
C5_IncludedMeaningsFormPrefix ==
    \A i \in Built :
        /\ Len(BuiltFields(i)) >= 1
        /\ Len(BuiltFields(i)) <= Len(BuiltWord(i).meanings)
        /\ \A k \in 1..Len(BuiltFields(i)) :
              BuiltFields(i)[k].value = field_text(BuiltWord(i).meanings[k])
        /\ \A k \in 2..Len(BuiltFields(i)) :
              SumLen(ValuesUpTo(BuiltFields(i), k)) <= budget

(* The label the n-th of the word's meanings is to carry among several. *)
OwnLabel(meanings, n) ==
    IF Truthy(meanings[n].word_class)
    THEN Val(meanings[n].word_class)
    ELSE MeaningLabel \o <<" ">> \o Str(n)

(* C6: whenever more than one section is included, the section rendered    *)
(* from meaning number i is labelled with that meaning's word class, or    *)
(* with "Meaning i" when it has none, never with those of another meaning. *)
C6_SectionsLabelledByOwnMeaning ==
    \A i \in Built :
        Len(BuiltFields(i)) > 1 =>
            \A k \in 1..Len(BuiltFields(i)) :
                LET n == Included(BuiltWord(i).meanings, budget)[k]
                IN /\ BuiltFields(i)[k].value = field_text(BuiltWord(i).meanings[n])
                   /\ BuiltFields(i)[k].name = OwnLabel(BuiltWord(i).meanings, n)

(* C7: neither adapter returns a Word whose meanings list is empty, so     *)
(* build_word_embed is never given a Word with zero meanings.              *)
C7_NoWordWithoutMeanings ==
    \A i \in 1..Len(lookups) :
        /\ lookups[i].words.tag = "ok" =>
              \A j \in 1..Len(lookups[i].words.val) :
                  Len(lookups[i].words.val[j].meanings) >= 1
        /\ lookups[i].result.exc # "IndexError"

(* 2*hasText + hasAudio of a phonetic record. *)
Score(x) == 2 * (IF Truthy(x.text) THEN 1 ELSE 0) + (IF Truthy(x.audio) THEN 1 ELSE 0)

(* The first record, in original order, among those of the highest score. *)
FirstBest(phonetics) ==
    CHOOSE r \in 1..Len(phonetics) :
        /\ \A s \in 1..Len(phonetics) : Score(phonetics[s]) <= Score(phonetics[r])
        /\ \A s \in 1..(r - 1) : Score(phonetics[s]) < Score(phonetics[r])

(* C8: for every non-empty list of phonetic records, each with or without  *)
(* text and with or without an audio URL (the audio field may be missing), *)
(* the selection succeeds and the Word's phonetic fields are those of the  *)
(* first record in original order among those maximising                   *)
(* 2*hasText + hasAudio.                                                   *)
C8_PhoneticIsFirstBest ==
    \A i \in 1..Len(lookups) :
        lookups[i].source = "formal" =>
            /\ lookups[i].words.exc # "TypeError"
            /\ lookups[i].words.tag = "ok" =>
                  \A j \in 1..Len(formalResponse.data) :
                      Truthy(formalResponse.data[j].phonetics) =>
                          LET phonetics == Val(formalResponse.data[j].phonetics)
                              best == phonetics[FirstBest(phonetics)]
                          IN /\ lookups[i].words.val[j].phonetic_str = best.text
                             /\ lookups[i].words.val[j].phonetic_audio_url = best.audio

(* An accepted formal payload with an entry that has no meanings section, *)
(* or with a definition that has no definition text.                      *)
ShapeDefect ==
    /\ formalResponse.ok
    /\ \E j \in 1..Len(formalResponse.data) :
          \/ formalResponse.data[j].meanings = None
          \/ \E g \in 1..Len(Val(formalResponse.data[j].meanings)) :
                LET group == Val(formalResponse.data[j].meanings)[g]
                IN /\ group.definitions # None
                   /\ \E d \in 1..Len(Val(group.definitions)) :
                         Val(group.definitions)[d].definition = None

(* C9: when the formal payload has an entry without a meanings section or  *)
(* a definition without definition text (the key is absent), the formal    *)
(* lookup fails hard: define aborts, no lookup is started after the        *)
(* failure, and neither a display nor "No definitions found" is sent.      *)
C9_ShapeDefectAborts ==
    \A i \in 1..Len(lookups) :
        ShapeDefect /\ lookups[i].source = "formal" =>
            /\ lookups[i].words.tag = "raise"
            /\ lookups[i].result.tag = "raise"
            /\ i = Len(lookups)
            /\ pc = "raised"
            /\ ~Sent

C9_Witness ==
    /\ ShapeDefect
    /\ urban
    /\ Len(lookups) = 2
    /\ lookups[1].result.tag = "none"
    /\ lookups[2].source = "formal"
    /\ lookups[2].result.exc = "KeyError"
    /\ pc = "raised"

(* C10: whenever get_urban_dictionary_def returns a Word, its headword is  *)
(* that of an entry that passed the match filter, so it equals the         *)
(* normalised queried word case-insensitively, also when the first entry   *)
(* of the result list is a near-match that the filter discards.            *)
C10_SlangHeadwordMatchesQuery ==
    \A i \in 1..Len(lookups) :
        lookups[i].source = "slang" /\ lookups[i].words.tag = "ok" =>
            Lower(lookups[i].words.val[1].word) = Lower(lookups[i].word)

============================================================================
